---- MODULE Spec2Model ----
(***************************************************************************)
(* Model of the CSV coverage cache (RowsCache, CSVRange, CSVCache) and of  *)
(* its row-count Estimator.                                                *)
(*                                                                         *)
(* Numbers handed to the public API are records [n, int]: the JavaScript   *)
(* number n when int is TRUE, the non-integer n + 1/2 otherwise.  Cell     *)
(* strings are naturals; EmptyString stands for ''.  An optional value is  *)
(* a sequence of length 0 (undefined) or 1.  The average row byte count is *)
(* an exact fraction num/den in lowest terms.                              *)
(***************************************************************************)
EXTENDS Integers, Sequences, FiniteSets, TLC

VARIABLES byteLength, headerByteCount, file, serial, random, averageRowByteCount, computed, last,
          call, df, emptyLastLine, copyAverage, otherCall, viewer, indexed

vars == <<byteLength, headerByteCount, file, serial, random, averageRowByteCount, computed, last,
          call, df, emptyLastLine, copyAverage, otherCall, viewer, indexed>>

(***************************************************************************)
(* Bounds of the model.                                                    *)
(***************************************************************************)
MaxByteLength == 3

MaxStoredRows == 2

MaxFileRows == 4

ColumnCount == 2

EmptyString == 0

PercentThreshold == 1

Abs(a) == IF a >= 0 THEN a ELSE 0 - a

RECURSIVE GCD(_, _)
GCD(a, b) == IF b = 0 THEN a ELSE GCD(b, a % b)

(***************************************************************************)
(* helpers.ts                                                              *)
(***************************************************************************)
Whole(n) == [n |-> n, int |-> TRUE]

Half(n) == [n |-> n, int |-> FALSE]

(* Mutation: the Number.isInteger test is forgotten. *)
checkNonNegativeIntegerLoose(value) == value.n >= 0

checkNonNegativeInteger(value) == value.int /\ value.n >= 0

(* Mutation: truncation instead of rounding. *)
RoundDown(p, q) == p \div q

(* Math.round of the non-negative fraction p/q (q > 0): halves round up. *)
Round(p, q) == (2 * p + q) \div (2 * q)

(***************************************************************************)
(* RowsCache                                                               *)
(***************************************************************************)
NewRowsCache == [rows |-> <<>>, byteCount |-> 0]

RowsCacheAppend(rc, row) ==
    [rows |-> Append(rc.rows, row.cells[1]), byteCount |-> rc.byteCount + row.byteCount.n]

(* Mutation: push instead of unshift. *)
RowsCachePrependAtEnd(rc, row) ==
    [rows |-> Append(rc.rows, row.cells[1]), byteCount |-> rc.byteCount + row.byteCount.n]

RowsCachePrepend(rc, row) ==
    [rows |-> <<row.cells[1]>> \o rc.rows, byteCount |-> rc.byteCount + row.byteCount.n]

(* Mutation: the rows of the other cache are dropped. *)
RowsCacheMergeDropped(rc, other) == rc

RowsCacheMerge(rc, other) ==
    [rows |-> rc.rows \o other.rows, byteCount |-> rc.byteCount + other.byteCount]

(***************************************************************************)
(* CSVRange.  The mutators return [ok, range]: ok is FALSE when the code   *)
(* throws, and range is then the receiver as the throw left it.            *)
(***************************************************************************)
NewRange(firstByte) == [firstByte |-> firstByte, byteCount |-> 0, rowsCache |-> NewRowsCache]

nextByte(range) == range.firstByte + range.byteCount

numRowsOf(range) == Len(range.rowsCache.rows)

RangeAppend(range, row) ==
    IF ~checkNonNegativeInteger(row.byteOffset) \/ ~checkNonNegativeInteger(row.byteCount)
    THEN [ok |-> FALSE, range |-> range]
    ELSE IF row.byteOffset.n # range.firstByte + range.byteCount
    THEN [ok |-> FALSE, range |-> range]
    ELSE [ok |-> TRUE,
          range |-> [firstByte |-> range.firstByte,
                     byteCount |-> row.byteOffset.n + row.byteCount.n - range.firstByte,
                     rowsCache |-> IF row.cells # <<>>
                                   THEN RowsCacheAppend(range.rowsCache, row)
                                   ELSE range.rowsCache]]

RangePrepend(range, row) ==
    IF ~checkNonNegativeInteger(row.byteOffset) \/ ~checkNonNegativeInteger(row.byteCount)
    THEN [ok |-> FALSE, range |-> range]
    ELSE IF row.byteOffset.n + row.byteCount.n # range.firstByte
    THEN [ok |-> FALSE, range |-> range]
    ELSE [ok |-> TRUE,
          range |-> [firstByte |-> row.byteOffset.n,
                     byteCount |-> range.byteCount + row.byteCount.n,
                     rowsCache |-> IF row.cells # <<>>
                                   THEN RowsCachePrepend(range.rowsCache, row)
                                   ELSE range.rowsCache]]

(* Mutation: the byteCount of the following range is not added. *)
RangeMergeKeepByteCount(range, followingRange) ==
    IF nextByte(range) # followingRange.firstByte
    THEN [ok |-> FALSE, range |-> range]
    ELSE [ok |-> TRUE,
          range |-> [firstByte |-> range.firstByte,
                     byteCount |-> range.byteCount,
                     rowsCache |-> RowsCacheMerge(range.rowsCache, followingRange.rowsCache)]]

RangeMerge(range, followingRange) ==
    IF nextByte(range) # followingRange.firstByte
    THEN [ok |-> FALSE, range |-> range]
    ELSE [ok |-> TRUE,
          range |-> [firstByte |-> range.firstByte,
                     byteCount |-> range.byteCount + followingRange.byteCount,
                     rowsCache |-> RowsCacheMerge(range.rowsCache, followingRange.rowsCache)]]

(* getRow reading the local index as 1-based. *)
getRowOneBased(range, rowIndex) ==
    IF rowIndex >= 1 /\ rowIndex <= numRowsOf(range)
    THEN <<range.rowsCache.rows[rowIndex]>>
    ELSE <<>>

(* getRow: the cells at a local index (0-based), as an optional value. *)
getRow(range, rowIndex) ==
    IF rowIndex >= 0 /\ rowIndex < numRowsOf(range)
    THEN <<range.rowsCache.rows[rowIndex + 1]>>
    ELSE <<>>

(***************************************************************************)
(* CSVCache.  A cache value is [serial, random]; range number 0 is the     *)
(* serial range and range number k > 0 is random[k].                       *)
(***************************************************************************)
RangeAt(cache, k) == IF k = 0 THEN cache.serial ELSE cache.random[k]

SetRangeAt(cache, k, range) ==
    IF k = 0
    THEN [serial |-> range, random |-> cache.random]
    ELSE [serial |-> cache.serial, random |-> [cache.random EXCEPT ![k] = range]]

RemoveAt(s, k) == SubSeq(s, 1, k - 1) \o SubSeq(s, k + 1, Len(s))

InsertAt(s, k, e) == SubSeq(s, 1, k - 1) \o <<e>> \o SubSeq(s, k, Len(s))

NewCache(hdr) ==
    [serial |-> RangeAppend(NewRange(0), [byteOffset |-> Whole(0), byteCount |-> Whole(hdr), cells |-> <<>>]).range,
     random |-> <<>>]

(* Mutation: the header is not compared with the byte length. *)
newCSVCacheAnyHeader(columnCount, hdr, len) ==
    IF ~checkNonNegativeInteger(hdr) \/ ~checkNonNegativeInteger(len)
    THEN [throws |-> TRUE, cache |-> NewCache(0)]
    ELSE IF columnCount = 0
    THEN [throws |-> TRUE, cache |-> NewCache(0)]
    ELSE [throws |-> FALSE, cache |-> NewCache(hdr.n)]

(* The constructor with its validation, for columnCount column names. *)
newCSVCache(columnCount, hdr, len) ==
    IF ~checkNonNegativeInteger(hdr) \/ ~checkNonNegativeInteger(len)
    THEN [throws |-> TRUE, cache |-> NewCache(0)]
    ELSE IF columnCount = 0
    THEN [throws |-> TRUE, cache |-> NewCache(0)]
    ELSE IF hdr.n > len.n
    THEN [throws |-> TRUE, cache |-> NewCache(0)]
    ELSE [throws |-> FALSE, cache |-> NewCache(hdr.n)]

(* The complete getter: "true", "false" or the fault it throws. *)
complete(cache, len) ==
    IF nextByte(cache.serial) > len
    THEN "Inconsistent state: serial range exceeds the file length"
    ELSE IF nextByte(cache.serial) = len /\ Len(cache.random) > 0
    THEN "Inconsistent state: serial range covers the entire file, but there are random ranges"
    ELSE IF nextByte(cache.serial) = len THEN "true" ELSE "false"

(* Mutation: the contiguous following range is left in place. *)
CacheMergeSkipped(cache, left, i) == [result |-> "true", cache |-> cache]

(* #merge(range, followingRange): range is number left, followingRange is random[i]. *)
CacheMerge(cache, left, i) ==
    LET m == RangeMerge(RangeAt(cache, left), cache.random[i])
    IN  IF ~m.ok
        THEN [result |-> "Cannot merge ranges: not contiguous", cache |-> cache]
        ELSE LET c1 == SetRangeAt(cache, left, m.range)
             IN  [result |-> "true", cache |-> [serial |-> c1.serial, random |-> RemoveAt(c1.random, i)]]

(* The loop of store: iteration i (1-based) has rightRange = random[i], or *)
(* undefined when i = Len(random) + 1; left is the number of leftRange.    *)
RECURSIVE storeLoop(_, _, _, _)
storeLoop(cache, row, i, left) ==
    LET leftRange == RangeAt(cache, left)
        hasRight == i <= Len(cache.random)
        off == row.byteOffset.n
        end == row.byteOffset.n + row.byteCount.n
    IN  IF i > Len(cache.random) + 1
        THEN [result |-> "Inconsistent state: this point should not be reachable", cache |-> cache]
        ELSE IF off < leftRange.firstByte
        THEN [result |-> "Inconsistent state: row is before the left range", cache |-> cache]
        ELSE IF off < nextByte(leftRange)
        THEN IF end > nextByte(leftRange)
             THEN [result |-> "Cannot store the row: the first bytes are already cached, but not the last ones.",
                   cache |-> cache]
             ELSE [result |-> "false", cache |-> cache]
        ELSE IF hasRight /\ off >= cache.random[i].firstByte
        THEN storeLoop(cache, row, i + 1, i)
        ELSE IF hasRight /\ end > cache.random[i].firstByte
        THEN [result |-> "Cannot store the row: the first bytes are not cached, but other bytes are already cached.",
              cache |-> cache]
        ELSE IF off = nextByte(leftRange)
        THEN LET a == RangeAppend(leftRange, row)
                 c1 == SetRangeAt(cache, left, a.range)
             IN  IF ~a.ok
                 THEN [result |-> "Cannot append the row: it is not contiguous with the last row", cache |-> cache]
                 ELSE IF hasRight /\ nextByte(a.range) = cache.random[i].firstByte
                 THEN CacheMerge(c1, left, i)
                 ELSE [result |-> "true", cache |-> c1]
        ELSE IF hasRight /\ end = cache.random[i].firstByte
        THEN LET p == RangePrepend(cache.random[i], row)
             IN  IF ~p.ok
                 THEN [result |-> "Cannot prepend the row: it is not contiguous with the first row", cache |-> cache]
                 ELSE [result |-> "true", cache |-> SetRangeAt(cache, i, p.range)]
        ELSE LET a == RangeAppend(NewRange(off), row)
             IN  [result |-> "true",
                  cache |-> [serial |-> cache.serial, random |-> InsertAt(cache.random, i, a.range)]]

(* Mutation: the out-of-bounds test is forgotten. *)
storeUnbounded(cache, len, row) ==
    IF ~checkNonNegativeInteger(row.byteOffset) \/ ~checkNonNegativeInteger(row.byteCount)
    THEN [result |-> "Value is not a non-negative integer", cache |-> cache]
    ELSE storeLoop(cache, row, 1, 0)

store(cache, len, row) ==
    IF ~checkNonNegativeInteger(row.byteOffset) \/ ~checkNonNegativeInteger(row.byteCount)
    THEN [result |-> "Value is not a non-negative integer", cache |-> cache]
    ELSE IF row.byteOffset.n + row.byteCount.n > len
    THEN [result |-> "Cannot store the row: byte range is out of bounds", cache |-> cache]
    ELSE storeLoop(cache, row, 1, 0)

(***************************************************************************)
(* Estimator.  The average is [undef, num, den]: undef is the value        *)
(* undefined (cache complete, count exact), otherwise the number num/den.  *)
(***************************************************************************)
ZeroAverage == [undef |-> FALSE, num |-> 0, den |-> 1]

UndefinedAverage == [undef |-> TRUE, num |-> 0, den |-> 1]

Fraction(p, q) == LET g == GCD(p, q) IN [undef |-> FALSE, num |-> p \div g, den |-> q \div g]

IsZero(avg) == ~avg.undef /\ avg.num = 0

RECURSIVE SumNumRows(_)
SumNumRows(ranges) ==
    IF ranges = <<>> THEN 0 ELSE numRowsOf(Head(ranges)) + SumNumRows(Tail(ranges))

RECURSIVE SumRowBytes(_)
SumRowBytes(ranges) ==
    IF ranges = <<>> THEN 0 ELSE Head(ranges).rowsCache.byteCount + SumRowBytes(Tail(ranges))

computeNumCachedRows(cache) == numRowsOf(cache.serial) + SumNumRows(cache.random)

(* Mutation: the bytes of the ignored rows are counted as well. *)
computeNumCachedBytesCovered(cache) ==
    cache.serial.byteCount + SumRowBytes([n \in 1..Len(cache.random) |->
        [cache.random[n] EXCEPT !.rowsCache.byteCount = cache.random[n].byteCount]])

computeNumCachedBytes(cache) == cache.serial.rowsCache.byteCount + SumRowBytes(cache.random)

numRows(avg, cache, len, hdr) ==
    IF IsZero(avg) THEN 0
    ELSE IF avg.undef THEN computeNumCachedRows(cache)
    ELSE Round((len - hdr) * avg.den, avg.num)

isNumRowsEstimated(avg) == ~avg.undef

(* maxNumRows as an optional value: <<>> stands for Infinity. *)
maxNumRows(avg, cache, len, hdr) ==
    IF isNumRowsEstimated(avg) THEN <<>> ELSE <<numRows(avg, cache, len, hdr)>>

(* Mutation: the threshold of the method's comment (5%) instead of 1%. *)
SignificantAboveFivePercent(a, avg) ==
    100 * Abs(a.num * avg.den - avg.num * a.den) > 5 * avg.num * a.den

(* Mutation: any change is significant. *)
SignificantAnyChange(a, avg) == a.num * avg.den # avg.num * a.den

(* |a - avg| / avg > 0.01, for the fraction a and the committed avg > 0. *)
Significant(a, avg) ==
    100 * Abs(a.num * avg.den - avg.num * a.den) > PercentThreshold * avg.num * a.den

(* Mutation: completion is reported on every call. *)
refreshCompleteAlways(avg) == [result |-> "true", average |-> UndefinedAverage]

(* The complete branch of refresh(). *)
refreshComplete(avg) ==
    IF avg.undef
    THEN [result |-> "false", average |-> avg]
    ELSE [result |-> "true", average |-> UndefinedAverage]

(* refresh(): [result, average] with result "true", "false" or a fault. *)
refresh(avg, cache, len) ==
    LET numCachedBytes == computeNumCachedBytes(cache)
        numCachedRows == computeNumCachedRows(cache)
        c == complete(cache, len)
    IN  IF c \notin {"true", "false"}
        THEN [result |-> c, average |-> avg]
        ELSE IF c = "true"
        THEN refreshComplete(avg)
        ELSE IF avg.undef
        THEN [result |-> "Incoherent state: the cache state cannot go from complete to incomplete",
              average |-> avg]
        ELSE IF numCachedRows = 0
        THEN [result |-> "false", average |-> avg]
        ELSE LET a == Fraction(numCachedBytes, numCachedRows)
             IN  IF IsZero(avg) \/ Significant(a, avg)
                 THEN [result |-> "true", average |-> a]
                 ELSE [result |-> "false", average |-> avg]

(***************************************************************************)
(* getStatus.  A status is a record [status, range, rightRange, cells,     *)
(* firstRangeRow, byteOffset, isEstimate]: range is the number of the      *)
(* stored row's range ("stored") or of leftRange ("missing"); rightRange   *)
(* is optional; fields a case does not carry hold 0, <<>> or FALSE.        *)
(***************************************************************************)
Status(st, k, right, cells, firstRow, offset, est) ==
    [status |-> st, range |-> k, rightRange |-> right, cells |-> cells,
     firstRangeRow |-> firstRow, byteOffset |-> offset, isEstimate |-> est]

Fault(msg) == Status(msg, 0, <<>>, <<>>, 0, 0, FALSE)

RECURSIVE getStatusLoop(_, _, _, _, _, _, _, _)
getStatusLoop(avg, cache, len, hdr, row, snapEOFToNumRows, i, left) ==
    LET leftRange == RangeAt(cache, left.range)
        hasRight == i <= Len(cache.random)
        rightRange == cache.random[i]
        leftNextRow == left.firstRow + numRowsOf(leftRange)
        n == numRows(avg, cache, len, hdr)
        rightFirstRow ==
            IF ~hasRight THEN n
            ELSE IF snapEOFToNumRows /\ nextByte(rightRange) >= len - 1 /\ numRowsOf(rightRange) > 0
            THEN n - numRowsOf(rightRange)
            ELSE leftNextRow + Round((rightRange.firstByte - nextByte(leftRange)) * avg.den, avg.num)
    IN  IF i > Len(cache.random) + 1
        THEN Fault("Incoherent state: this point should not be reachable")
        ELSE IF row < leftNextRow
        THEN LET cells == getRow(leftRange, row - left.firstRow)
             IN  IF cells = <<>>
                 THEN Fault("Incoherent state: the range should contain at least one row")
                 ELSE Status("stored", left.range, <<>>, cells[1], left.firstRow, 0, left.isEstimate)
        ELSE IF row = leftNextRow
        THEN Status("missing", left.range, IF hasRight THEN <<i>> ELSE <<>>, <<>>, 0,
                    nextByte(leftRange), FALSE)
        ELSE IF avg.undef
        THEN Fault("Incoherent state: the cache is complete, we should have returned earlier.")
        ELSE IF IsZero(avg)
        THEN Status("unknown", 0, <<>>, <<>>, 0, 0, FALSE)
        ELSE IF row < rightFirstRow
        THEN Status("missing", left.range, IF hasRight THEN <<i>> ELSE <<>>, <<>>, 0,
                    nextByte(leftRange) + Round((row - leftNextRow) * avg.num, avg.den), TRUE)
        ELSE getStatusLoop(avg, cache, len, hdr, row, snapEOFToNumRows, i + 1,
                           IF hasRight
                           THEN [range |-> i, firstRow |-> rightFirstRow, isEstimate |-> TRUE]
                           ELSE left)

(* Mutation: the end-of-file test without its numRows > 0 guard. *)
getStatusUnguarded(avg, cache, len, hdr, row, snapEOFToNumRows) ==
    IF ~checkNonNegativeInteger(row)
    THEN Fault("Value is not a non-negative integer")
    ELSE IF row.n >= numRows(avg, cache, len, hdr)
    THEN Status("beyond-eof", 0, <<>>, <<>>, 0, 0, isNumRowsEstimated(avg))
    ELSE getStatusLoop(avg, cache, len, hdr, row.n, snapEOFToNumRows, 1,
                       [range |-> 0, firstRow |-> 0, isEstimate |-> FALSE])

getStatus(avg, cache, len, hdr, row, snapEOFToNumRows) ==
    IF ~checkNonNegativeInteger(row)
    THEN Fault("Value is not a non-negative integer")
    ELSE IF numRows(avg, cache, len, hdr) > 0 /\ row.n >= numRows(avg, cache, len, hdr)
    THEN Status("beyond-eof", 0, <<>>, <<>>, 0, 0, isNumRowsEstimated(avg))
    ELSE getStatusLoop(avg, cache, len, hdr, row.n, snapEOFToNumRows, 1,
                       [range |-> 0, firstRow |-> 0, isEstimate |-> FALSE])

(* The left sides [range, firstRow, isEstimate] that getStatus's loop visits *)
(* for a row, in order, up to the one where it returns or throws.          *)
RECURSIVE getStatusWalk(_, _, _, _, _, _, _, _)
getStatusWalk(avg, cache, len, hdr, row, snapEOFToNumRows, i, left) ==
    LET leftRange == RangeAt(cache, left.range)
        hasRight == i <= Len(cache.random)
        rightRange == cache.random[i]
        leftNextRow == left.firstRow + numRowsOf(leftRange)
        n == numRows(avg, cache, len, hdr)
        rightFirstRow ==
            IF snapEOFToNumRows /\ nextByte(rightRange) >= len - 1 /\ numRowsOf(rightRange) > 0
            THEN n - numRowsOf(rightRange)
            ELSE leftNextRow + Round((rightRange.firstByte - nextByte(leftRange)) * avg.den, avg.num)
    IN  IF row <= leftNextRow \/ avg.undef \/ IsZero(avg) \/ ~hasRight
        THEN <<left>>
        ELSE IF row < rightFirstRow
        THEN <<left>>
        ELSE <<left>> \o getStatusWalk(avg, cache, len, hdr, row, snapEOFToNumRows, i + 1,
                                       [range |-> i, firstRow |-> rightFirstRow, isEstimate |-> TRUE])

(* getCell without the empty-string default for a cell the row lacks. *)
getCellNoDefault(avg, cache, len, hdr, row, column) ==
    IF ~checkNonNegativeInteger(column)
    THEN [throws |-> TRUE, value |-> <<>>]
    ELSE IF column.n >= ColumnCount
    THEN [throws |-> TRUE, value |-> <<>>]
    ELSE LET status == getStatus(avg, cache, len, hdr, row, TRUE)
         IN  IF status.status \notin {"stored", "missing", "beyond-eof", "unknown"}
             THEN [throws |-> TRUE, value |-> <<>>]
             ELSE IF status.status # "stored"
             THEN [throws |-> FALSE, value |-> <<>>]
             ELSE [throws |-> FALSE,
                   value |-> IF column.n + 1 <= Len(status.cells)
                             THEN <<status.cells[column.n + 1]>>
                             ELSE <<>>]

(* getCell: [throws, value] with value <<v>>, or <<>> for undefined. *)
getCell(avg, cache, len, hdr, row, column) ==
    IF ~checkNonNegativeInteger(column)
    THEN [throws |-> TRUE, value |-> <<>>]
    ELSE IF column.n >= ColumnCount
    THEN [throws |-> TRUE, value |-> <<>>]
    ELSE LET status == getStatus(avg, cache, len, hdr, row, TRUE)
         IN  IF status.status \notin {"stored", "missing", "beyond-eof", "unknown"}
             THEN [throws |-> TRUE, value |-> <<>>]
             ELSE IF status.status # "stored"
             THEN [throws |-> FALSE, value |-> <<>>]
             ELSE [throws |-> FALSE,
                   value |-> <<IF column.n + 1 <= Len(status.cells)
                               THEN status.cells[column.n + 1]
                               ELSE EmptyString>>]

(* getRowNumber accepting the row at numRows as well. *)
getRowNumberInclusive(avg, cache, len, hdr, row) ==
    IF row >= 0 /\ row <= numRows(avg, cache, len, hdr) THEN <<row>> ELSE <<>>

(* getRowNumber: <<row>> or <<>> for undefined (row is a plain integer). *)
getRowNumber(avg, cache, len, hdr, row) ==
    IF row >= 0 /\ row < numRows(avg, cache, len, hdr) THEN <<row>> ELSE <<>>

(***************************************************************************)
(* State machine.  byteLength and headerByteCount are the constructor's    *)
(* arguments; serial, random are the cache's ranges; averageRowByteCount   *)
(* is the estimator's only field.  last is the latest call with what it    *)
(* returned or threw, and computed is what the latest refresh() call saw:  *)
(* whether the cache was complete and the average it computed, if any.     *)
(***************************************************************************)
cacheNow == [serial |-> serial, random |-> random]

NumberInputs == {Whole(n) : n \in (0 - 1)..(MaxByteLength + 1)} \cup {Half(1)}

CellsInputs == {<<>>, <<<<1>>>>}

RowInputs == [byteOffset : NumberInputs, byteCount : NumberInputs, cells : CellsInputs]

(* No fetch call in flight, and no data frame.  newRows counts the rows    *)
(* with cells that the call stored and whose row number in the file is in  *)
(* the window asked for; error is the message of the error the call threw; *)
(* storedInRound is the estimation round of the call's last store.         *)
NoCall ==
    [pc |-> "idle", rowStart |-> 0, rowEnd |-> 0, aborted |-> FALSE, next |-> <<>>,
     ignoreFirstRow |-> FALSE, isFirstRow |-> FALSE, pos |-> 0, i |-> 0, j |-> 0, k |-> 0,
     hasFetchedSomeRows |-> FALSE, invocations |-> 0, events |-> 0, newRows |-> 0,
     error |-> "", storedInRound |-> 0]

NoFrame == [numRows |-> 0, isNumRowsEstimated |-> FALSE]

(***************************************************************************)
(* The cache whose ranges carry a firstRow index (CSVRange and CSVCache of *)
(* the earlier module).  A range is [firstByte, byteCount, rowByteCount,   *)
(* rows, firstRow]; the cache is [cache, averageRowByteCount,              *)
(* numRowsEstimate] with cache = [serial, random].  The operations return  *)
(* [result, ic]: result is "ok" or the message of the error thrown, and ic *)
(* the cache as the call left it.                                          *)
(***************************************************************************)
IndexedNewRange(firstByte, firstRow) ==
    [firstByte |-> firstByte, byteCount |-> 0, rowByteCount |-> 0, rows |-> <<>>,
     firstRow |-> firstRow]

IndexedRangeNext(range) ==
    [row |-> range.firstRow + Len(range.rows), firstByte |-> range.firstByte + range.byteCount]

IndexedRangeAppend(range, row) ==
    IF ~checkNonNegativeInteger(row.byteOffset) \/ ~checkNonNegativeInteger(row.byteCount)
    THEN [ok |-> FALSE, range |-> range]
    ELSE IF row.byteOffset.n # range.firstByte + range.byteCount
    THEN [ok |-> FALSE, range |-> range]
    ELSE [ok |-> TRUE,
          range |-> IF row.cells # <<>>
                    THEN [range EXCEPT !.byteCount = row.byteOffset.n + row.byteCount.n - range.firstByte,
                                       !.rows = Append(@, row.cells[1]),
                                       !.rowByteCount = @ + row.byteCount.n]
                    ELSE [range EXCEPT !.byteCount = row.byteOffset.n + row.byteCount.n - range.firstByte]]

IndexedRangePrepend(range, row) ==
    IF ~checkNonNegativeInteger(row.byteOffset) \/ ~checkNonNegativeInteger(row.byteCount)
    THEN [ok |-> FALSE, range |-> range]
    ELSE IF row.byteOffset.n + row.byteCount.n # range.firstByte
    THEN [ok |-> FALSE, range |-> range]
    ELSE [ok |-> TRUE,
          range |-> IF row.cells # <<>>
                    THEN [range EXCEPT !.firstByte = row.byteOffset.n,
                                       !.byteCount = @ + row.byteCount.n,
                                       !.firstRow = @ - 1,
                                       !.rows = <<row.cells[1]>> \o @,
                                       !.rowByteCount = @ + row.byteCount.n]
                    ELSE [range EXCEPT !.firstByte = row.byteOffset.n,
                                       !.byteCount = @ + row.byteCount.n]]

IndexedRangeMerge(range, followingRange) ==
    IF IndexedRangeNext(range).firstByte # followingRange.firstByte
    THEN [ok |-> FALSE, range |-> range]
    ELSE [ok |-> TRUE,
          range |-> [range EXCEPT !.byteCount = @ + followingRange.byteCount,
                                  !.rowByteCount = @ + followingRange.rowByteCount,
                                  !.rows = @ \o followingRange.rows]]

RECURSIVE IndexedSumRows(_)
IndexedSumRows(ranges) ==
    IF ranges = <<>> THEN 0 ELSE Len(Head(ranges).rows) + IndexedSumRows(Tail(ranges))

RECURSIVE IndexedSumRowBytes(_)
IndexedSumRowBytes(ranges) ==
    IF ranges = <<>> THEN 0 ELSE Head(ranges).rowByteCount + IndexedSumRowBytes(Tail(ranges))

(* The rowCount getter of the cache. *)
indexedRowCount(cache) == Len(cache.serial.rows) + IndexedSumRows(cache.random)

indexedAllRowsCached(cache, len) == IndexedRangeNext(cache.serial).firstByte >= len

(* #updateLastRangeRowNumber: the firstRow setter throws on a negative value. *)
updateLastRangeRowNumber(ic, len) ==
    LET n == Len(ic.cache.random)
    IN  IF n = 0 THEN [result |-> "ok", ic |-> ic]
        ELSE IF IndexedRangeNext(ic.cache.random[n]).firstByte < len THEN [result |-> "ok", ic |-> ic]
        ELSE IF ic.numRowsEstimate.numRows - Len(ic.cache.random[n].rows) < 0
        THEN [result |-> "Value is not a non-negative integer", ic |-> ic]
        ELSE [result |-> "ok",
              ic |-> [ic EXCEPT !.cache.random[n].firstRow =
                                   ic.numRowsEstimate.numRows - Len(ic.cache.random[n].rows)]]

(* #updateNumRowsEstimate *)
updateNumRowsEstimate(ic, len, hdr) ==
    LET avg == ic.averageRowByteCount
        n == IF indexedAllRowsCached(ic.cache, len) THEN indexedRowCount(ic.cache)
             ELSE IF avg.undef \/ avg.num = 0 THEN 0
             ELSE Round((len - hdr) * avg.den, avg.num)
    IN  updateLastRangeRowNumber(
            [ic EXCEPT !.numRowsEstimate =
                          [numRows |-> n, isEstimate |-> ~indexedAllRowsCached(ic.cache, len)]],
            len)

(* #updateAverageRowByteCount *)
updateAverageRowByteCount(ic, len, hdr) ==
    LET rowByteCount == ic.cache.serial.rowByteCount + IndexedSumRowBytes(ic.cache.random)
        rowCount == indexedRowCount(ic.cache)
    IN  updateNumRowsEstimate(
            [ic EXCEPT !.averageRowByteCount =
                          IF rowCount = 0 THEN UndefinedAverage ELSE Fraction(rowByteCount, rowCount)],
            len, hdr)

(* #merge(range, followingRange): range is number prev, followingRange is random[i]. *)
IndexedCacheMerge(cache, prev, i) ==
    LET c2 == SetRangeAt(cache, prev, IndexedRangeMerge(RangeAt(cache, prev), cache.random[i]).range)
    IN  [result |-> "ok", cache |-> [serial |-> c2.serial, random |-> RemoveAt(c2.random, i)]]

(* The loop of store: iteration i (1-based) has nextRange = random[i], or  *)
(* undefined when i = Len(random) + 1; prev is the number of previousRange. *)
RECURSIVE indexedStoreLoop(_, _, _, _)
indexedStoreLoop(cache, row, i, prev) ==
    LET previousRange == RangeAt(cache, prev)
        hasNext == i <= Len(cache.random)
        off == row.byteOffset.n
        end == row.byteOffset.n + row.byteCount.n
    IN  IF off < IndexedRangeNext(previousRange).firstByte
        THEN [result |-> "Cannot store the row: overlap with previous range", cache |-> cache]
        ELSE IF hasNext /\ off >= IndexedRangeNext(cache.random[i]).firstByte
        THEN indexedStoreLoop(cache, row, i + 1, i)
        ELSE IF hasNext /\ end > cache.random[i].firstByte
        THEN [result |-> "Cannot store the row: overlap with next range", cache |-> cache]
        ELSE IF off = IndexedRangeNext(previousRange).firstByte
        THEN LET a == IndexedRangeAppend(previousRange, row)
                 c1 == SetRangeAt(cache, prev, a.range)
             IN  IF hasNext /\ IndexedRangeNext(a.range).firstByte = cache.random[i].firstByte
                 THEN IndexedCacheMerge(c1, prev, i)
                 ELSE [result |-> "ok", cache |-> c1]
        ELSE IF hasNext /\ end = cache.random[i].firstByte
        THEN [result |-> "ok", cache |-> SetRangeAt(cache, i, IndexedRangePrepend(cache.random[i], row).range)]
        ELSE IF ~checkNonNegativeInteger(row.firstRow)
        THEN [result |-> "Value is not a non-negative integer", cache |-> cache]
        ELSE [result |-> "ok",
              cache |-> [serial |-> cache.serial,
                         random |-> InsertAt(cache.random, i,
                                             IndexedRangeAppend(IndexedNewRange(off, row.firstRow.n), row).range)]]

(* store: validation, the loop, then the average and the estimates. *)
indexedStore(ic, len, hdr, row) ==
    IF ~checkNonNegativeInteger(row.byteOffset) \/ ~checkNonNegativeInteger(row.byteCount)
    THEN [result |-> "Value is not a non-negative integer", ic |-> ic]
    ELSE IF row.byteOffset.n + row.byteCount.n > len
    THEN [result |-> "Cannot store the row: byte range is out of bounds", ic |-> ic]
    ELSE LET s == indexedStoreLoop(ic.cache, row, 1, 0)
         IN  IF s.result # "ok" THEN [result |-> s.result, ic |-> ic]
             ELSE updateAverageRowByteCount([ic EXCEPT !.cache = s.cache], len, hdr)

(* The loop of updateRowEstimates over random[i..], prev the number of     *)
(* previousRange.                                                          *)
RECURSIVE updateRowEstimatesLoop(_, _, _)
updateRowEstimatesLoop(ic, i, prev) ==
    IF i > Len(ic.cache.random) THEN [result |-> "ok", ic |-> ic]
    ELSE LET avg == ic.averageRowByteCount
             range == ic.cache.random[i]
             next == IndexedRangeNext(RangeAt(ic.cache, prev))
             estimate == Round(next.row * avg.num + (range.firstByte - next.firstByte) * avg.den,
                               avg.num)
             firstRow == IF next.row + 1 >= estimate THEN next.row + 1 ELSE estimate
         IN  IF range.firstByte <= next.firstByte
             THEN [result |-> "Cannot update row estimates: overlap with previous range", ic |-> ic]
             ELSE IF firstRow < 0
             THEN [result |-> "Value is not a non-negative integer", ic |-> ic]
             ELSE updateRowEstimatesLoop([ic EXCEPT !.cache.random[i].firstRow = firstRow], i + 1, i)

updateRowEstimates(ic) ==
    IF ic.averageRowByteCount.undef \/ ic.averageRowByteCount.num = 0
    THEN [result |-> "ok", ic |-> ic]
    ELSE updateRowEstimatesLoop(ic, 1, 0)

(* The constructor: the serial range holds the header. *)
NewIndexedCache(len, hdr) ==
    updateAverageRowByteCount(
        [cache |-> [serial |-> IndexedRangeAppend(IndexedNewRange(0, 0),
                                   [byteOffset |-> Whole(0), byteCount |-> Whole(hdr), cells |-> <<>>]).range,
                    random |-> <<>>],
         averageRowByteCount |-> UndefinedAverage,
         numRowsEstimate |-> [numRows |-> 0, isEstimate |-> TRUE]],
        len, hdr).ic

(* The viewer before any URL is set: the reducer's state {} and no pending *)
(* task.  url 0 stands for undefined; optional fields are <<>> or <<v>>.   *)
NoViewer ==
    [url |-> 0, byteLength |-> <<>>, controller |-> <<>>, df |-> <<>>, tasks |-> <<>>,
     aborted |-> {}]

Constructed(len, hdr) ==
    /\ call = NoCall
    /\ df = NoFrame
    /\ emptyLastLine = FALSE
    /\ copyAverage = <<>>
    /\ otherCall = NoCall
    /\ viewer = NoViewer
    /\ indexed = NewIndexedCache(len, hdr)
    /\ byteLength = len
    /\ headerByteCount = hdr
    /\ ~newCSVCache(ColumnCount, Whole(hdr), Whole(len)).throws
    /\ serial = newCSVCache(ColumnCount, Whole(hdr), Whole(len)).cache.serial
    /\ random = newCSVCache(ColumnCount, Whole(hdr), Whole(len)).cache.random
    /\ averageRowByteCount = ZeroAverage
    /\ computed = [complete |-> FALSE, average |-> <<>>]
    /\ last = [op |-> "new", result |-> "true"]

Init ==
    /\ file = <<>>
    /\ \E len \in 0..MaxByteLength : \E hdr \in 0..len : Constructed(len, hdr)

Store ==
    \E row \in RowInputs :
        /\ row.cells = <<>> \/ computeNumCachedRows(cacheNow) < MaxStoredRows
        /\ LET s == store(cacheNow, byteLength, row)
           IN  /\ serial' = s.cache.serial
               /\ random' = s.cache.random
               /\ last' = [op |-> "store", result |-> s.result]
        /\ UNCHANGED <<byteLength, headerByteCount, file, averageRowByteCount, computed, call, df, emptyLastLine, copyAverage, otherCall, viewer, indexed>>

Refresh ==
    /\ LET r == refresh(averageRowByteCount, cacheNow, byteLength)
           c == complete(cacheNow, byteLength)
       IN  /\ averageRowByteCount' = r.average
           /\ last' = [op |-> "refresh", result |-> r.result]
           /\ computed' = [complete |-> c = "true",
                           average |-> IF c = "false" /\ computeNumCachedRows(cacheNow) > 0
                                       THEN <<Fraction(computeNumCachedBytes(cacheNow),
                                                       computeNumCachedRows(cacheNow))>>
                                       ELSE <<>>]
    /\ UNCHANGED <<byteLength, headerByteCount, file, serial, random, call, df, emptyLastLine, copyAverage, otherCall, viewer, indexed>>

Next == Store \/ Refresh

Spec == Init /\ [][Next]_vars

(***************************************************************************)
(* The same cache fed by a row source: a file is a header followed by rows *)
(* that tile [headerByteCount, byteLength); each parsed row is stored with *)
(* its exact byte span, an empty line without cells.  Rows reach the cache *)
(* in any order and any number of times.                                   *)
(***************************************************************************)
FileHeaderByteCount == 10

RowShapes == {[byteCount |-> 100, kind |-> "full"], [byteCount |-> 102, kind |-> "short"],
              [byteCount |-> 40, kind |-> "full"], [byteCount |-> 1, kind |-> "empty"]}

Files == UNION {[1..n -> RowShapes] : n \in 0..MaxFileRows}

RECURSIVE FileBytes(_, _)
FileBytes(f, n) == IF n = 0 THEN 0 ELSE f[n].byteCount + FileBytes(f, n - 1)

FileRow(f, hdr, i) ==
    [byteOffset |-> Whole(hdr + FileBytes(f, i - 1)),
     byteCount |-> Whole(f[i].byteCount),
     cells |-> IF f[i].kind = "empty" THEN <<>>
               ELSE IF f[i].kind = "short" THEN <<<<i>>>>
               ELSE <<<<i, i + 10>>>>]

InitFile ==
    \E f \in Files :
        /\ file = f
        /\ Constructed(FileHeaderByteCount + FileBytes(f, Len(f)), FileHeaderByteCount)

StoreRow ==
    \E i \in 1..Len(file) :
        /\ LET row == FileRow(file, headerByteCount, i)
               s == store(cacheNow, byteLength, row)
           IN  /\ serial' = s.cache.serial
               /\ random' = s.cache.random
               /\ last' = [op |-> "store", result |-> s.result]
        /\ UNCHANGED <<byteLength, headerByteCount, file, averageRowByteCount, computed, call, df, emptyLastLine, copyAverage, otherCall, viewer, indexed>>

NextFile == StoreRow \/ Refresh

SpecFile == InitFile /\ [][NextFile]_vars

(***************************************************************************)
(* Observations the properties are written with.                          *)
(***************************************************************************)
Ranges == <<serial>> \o random

Threw(result) == result \notin {"true", "false"}

(***************************************************************************)
(* Estimator.getFirstMissingRow: optional [row, byteOffset, isEstimate].   *)
(***************************************************************************)
getFirstMissingRowSameRow(avg, cache, len, hdr, minRow) ==
    LET status == getStatus(avg, cache, len, hdr, Whole(minRow), FALSE)
        range == RangeAt(cache, status.range)
    IN  IF status.status = "missing"
        THEN <<[row |-> minRow, byteOffset |-> status.byteOffset, isEstimate |-> status.isEstimate]>>
        ELSE IF status.status = "stored"
        THEN IF nextByte(range) >= len
             THEN <<>>
             ELSE <<[row |-> minRow, byteOffset |-> nextByte(range), isEstimate |-> FALSE]>>
        ELSE <<>>

getFirstMissingRow(avg, cache, len, hdr, minRow) ==
    LET status == getStatus(avg, cache, len, hdr, Whole(minRow), FALSE)
        range == RangeAt(cache, status.range)
    IN  IF status.status = "missing"
        THEN <<[row |-> minRow, byteOffset |-> status.byteOffset, isEstimate |-> status.isEstimate]>>
        ELSE IF status.status = "stored"
        THEN IF nextByte(range) >= len
             THEN <<>>
             ELSE <<[row |-> status.firstRangeRow + numRowsOf(range),
                     byteOffset |-> nextByte(range), isEstimate |-> FALSE]>>
        ELSE <<>>

(***************************************************************************)
(* The data frame: creation from a file, and fetch.  The row source yields *)
(* the rows of the file from a byte position on; from a position inside a  *)
(* row it first yields the rest of that row, a partial row.  A fetch call  *)
(* is the record call: pc is "idle", "parsing" (suspended in the row       *)
(* source), "done", "rejected" (aborted) or "threw"; invocations counts    *)
(* the row-source invocations and events the resolve events of the call.   *)
(***************************************************************************)
MaxFetchRows == 3

MaxFetchRow == 4

ChunkSize == 50

PartialCell == 99

FetchFiles == UNION {[1..n -> {shape \in RowShapes : shape.kind # "short"}] : n \in 0..MaxFetchRows}

(* The row windows asked for: single rows, and all the rows. *)
Windows ==
    {[rowStart |-> r, rowEnd |-> r + 1] : r \in 0..MaxFetchRow}
        \cup {[rowStart |-> 0, rowEnd |-> MaxFetchRow + 1]}

RECURSIVE RowIndexAt(_, _, _, _)
RowIndexAt(f, hdr, pos, i) ==
    IF i > Len(f) THEN 0
    ELSE IF pos < hdr + FileBytes(f, i) THEN i
    ELSE RowIndexAt(f, hdr, pos, i + 1)

(* The next result of the row source reading at byte pos, as an optional   *)
(* row.  After a last line that is empty it yields a row of zero bytes.    *)
parseURL(f, hdr, pos, lastLineEmpty) ==
    LET i == RowIndexAt(f, hdr, pos, 1)
    IN  IF i = 0
        THEN IF lastLineEmpty /\ pos = hdr + FileBytes(f, Len(f))
             THEN <<[byteOffset |-> Whole(pos), byteCount |-> Whole(0), cells |-> <<>>]>>
             ELSE <<>>
        ELSE IF pos = hdr + FileBytes(f, i - 1) THEN <<FileRow(f, hdr, i)>>
        ELSE <<[byteOffset |-> Whole(pos),
                byteCount |-> Whole(hdr + FileBytes(f, i) - pos),
                cells |-> <<<<PartialCell>>>>]>>

allRowsCached(cache, len) == nextByte(cache.serial) >= len

isStored(cache, byteOffset) ==
    \E n \in 0..Len(cache.random) :
        /\ RangeAt(cache, n).firstByte <= byteOffset
        /\ byteOffset < nextByte(RangeAt(cache, n))

(* Mutation: the signal is never looked at. *)
checkSignalNever(aborted) == FALSE

(* checkSignal throws (TRUE) when the signal is aborted. *)
checkSignal(aborted) == aborted

(* The first row of [rowStart, rowEnd) to fetch, after the stored rows at   *)
(* its start: optional [firstByte, isEstimate]; none when all the rows are  *)
(* cached.                                                                  *)
RECURSIVE getNextMissingRow(_, _, _, _, _, _)
getNextMissingRow(avg, cache, len, hdr, rowStart, rowEnd) ==
    LET first == getFirstMissingRow(avg, cache, len, hdr, rowStart)
    IN  IF allRowsCached(cache, len) THEN <<>>
        ELSE IF first = <<>> THEN <<>>
        ELSE IF first[1].row >= rowEnd THEN <<>>
        ELSE IF /\ first[1].row > rowStart
                /\ getStatus(avg, cache, len, hdr, Whole(first[1].row), FALSE).status = "stored"
        THEN getNextMissingRow(avg, cache, len, hdr, first[1].row, rowEnd)
        ELSE <<[firstByte |-> first[1].byteOffset, isEstimate |-> first[1].isEstimate]>>

(* The row count that the queries of the data frame are validated with:    *)
(* the number of cached rows once all are cached, else <<>> for Infinity.   *)
validationNumRowsEstimate(avg, cache, len, hdr) == <<numRows(avg, cache, len, hdr)>>

validationNumRows(avg, cache, len, hdr) ==
    IF allRowsCached(cache, len) THEN <<computeNumCachedRows(cache)>> ELSE <<>>

(* validateGetCellParams / validateGetRowNumberParams: TRUE when they throw *)
(* for the row.                                                             *)
validateRow(row, bound) ==
    \/ ~checkNonNegativeInteger(row)
    \/ bound # <<>> /\ row.n >= bound[1]

(* getCell and getRowNumber of the data frame. *)
dataFrameGetCell(avg, cache, len, hdr, row, column) ==
    IF validateRow(row, validationNumRows(avg, cache, len, hdr))
    THEN [throws |-> TRUE, value |-> <<>>]
    ELSE getCell(avg, cache, len, hdr, row, column)

dataFrameGetRowNumber(avg, cache, len, hdr, row) ==
    IF validateRow(row, validationNumRows(avg, cache, len, hdr))
    THEN [throws |-> TRUE, value |-> <<>>]
    ELSE [throws |-> FALSE, value |-> getRowNumber(avg, cache, len, hdr, row.n)]

(* initializeCSVCachefromURL: the rows after the header are stored until   *)
(* initialRowCount rows are cached.                                        *)
RECURSIVE initializeCSVCachefromURL(_, _, _, _, _, _)
initializeCSVCachefromURL(cache, f, hdr, len, i, initialRowCount) ==
    IF i > Len(f) THEN cache
    ELSE IF computeNumCachedRows(cache) >= initialRowCount THEN cache
    ELSE initializeCSVCachefromURL(store(cache, len, FileRow(f, hdr, i)).cache, f, hdr, len,
                                   i + 1, initialRowCount)

(* numRows and metadata of the data frame, computed once at creation. *)
csvDataFrame(cache, len, hdr) ==
    [numRows |-> IF allRowsCached(cache, len) THEN computeNumCachedRows(cache)
                 ELSE IF computeNumCachedRows(cache) = 0 \/ computeNumCachedBytes(cache) = 0 THEN 0
                 ELSE Round((len - hdr) * computeNumCachedRows(cache), computeNumCachedBytes(cache)),
     isNumRowsEstimated |-> ~allRowsCached(cache, len)]

InitFetch ==
    \E f \in FetchFiles : \E initialRowCount \in 0..MaxFetchRows : \E lastLineEmpty \in BOOLEAN :
        LET len == FileHeaderByteCount + FileBytes(f, Len(f))
            cache == initializeCSVCachefromURL(NewCache(FileHeaderByteCount), f, FileHeaderByteCount,
                                               len, 1, initialRowCount)
        IN  /\ file = f
            /\ byteLength = len
            /\ headerByteCount = FileHeaderByteCount
            /\ serial = cache.serial
            /\ random = cache.random
            /\ averageRowByteCount = refresh(ZeroAverage, cache, len).average
            /\ computed = [complete |-> FALSE, average |-> <<>>]
            /\ last = [op |-> "new", result |-> "true"]
            /\ call = NoCall
            /\ emptyLastLine = lastLineEmpty
            /\ copyAverage = <<>>
            /\ otherCall = NoCall
            /\ viewer = NoViewer
            /\ indexed = NewIndexedCache(len, FileHeaderByteCount)
            /\ df = csvDataFrame(cache, len, FileHeaderByteCount)

maxLoops(c) == (c.rowEnd - c.rowStart) + 10

(* The call after fetch returned or threw; a resolve event is dispatched   *)
(* on a normal return of the loop when some row was fetched.               *)
Finished(c, pc, dispatch) ==
    [c EXCEPT !.pc = pc, !.next = <<>>, !.ignoreFirstRow = FALSE, !.isFirstRow = FALSE,
              !.pos = 0, !.i = 0, !.j = 0, !.k = 0, !.storedInRound = 0,
              !.events = IF dispatch /\ c.hasFetchedSomeRows THEN 1 ELSE 0]

(* The call after fetch threw the error. *)
Thrown(c, error) == [Finished(c, "threw", FALSE) EXCEPT !.error = error]

FetchState(c, avg, cache) == [call |-> c, average |-> avg, cache |-> cache]

(* Head of the loop over the missing ranges: the row source is invoked at  *)
(* next.firstByte.                                                         *)
openParseKeepFirstRow(c, next) ==
    IF c.j + 1 > maxLoops(c)
    THEN Thrown(c, "Maximum fetch loops exceeded")
    ELSE [c EXCEPT !.pc = "parsing", !.j = @ + 1, !.next = next,
                   !.ignoreFirstRow = FALSE, !.isFirstRow = TRUE, !.k = 0,
                   !.pos = next[1].firstByte, !.invocations = @ + 1]

openParseSkipFirstRow(c, next) ==
    IF c.j + 1 > maxLoops(c)
    THEN Thrown(c, "Maximum fetch loops exceeded")
    ELSE [c EXCEPT !.pc = "parsing", !.j = @ + 1, !.next = next,
                   !.ignoreFirstRow = TRUE, !.isFirstRow = TRUE, !.k = 0,
                   !.pos = next[1].firstByte, !.invocations = @ + 1]

openParse(c, next) ==
    IF c.j + 1 > maxLoops(c)
    THEN Thrown(c, "Maximum fetch loops exceeded")
    ELSE [c EXCEPT !.pc = "parsing", !.j = @ + 1, !.next = next,
                   !.ignoreFirstRow = next[1].isEstimate, !.isFirstRow = TRUE, !.k = 0,
                   !.pos = next[1].firstByte, !.invocations = @ + 1]

(* After the loop over the missing ranges: the estimates are updated and   *)
(* the window is looked at again.                                          *)
afterWhile(c, avg, cache, len, hdr) ==
    LET r == refresh(avg, cache, len)
        updatedNext == getNextMissingRow(r.average, cache, len, hdr, c.rowStart, c.rowEnd)
    IN  IF Threw(r.result)
        THEN FetchState(Thrown(c, "refresh"), avg, cache)
        ELSE IF updatedNext = <<>>
        THEN FetchState(Finished(c, "done", TRUE), r.average, cache)
        ELSE IF c.next # <<>> /\ updatedNext[1].firstByte = c.next[1].firstByte
        THEN FetchState(Finished(c, "done", TRUE), r.average, cache)
        ELSE IF c.i >= maxLoops(c)
        THEN FetchState(Thrown(c, "Maximum estimation loops exceeded"), r.average, cache)
        ELSE FetchState(openParse([c EXCEPT !.i = @ + 1, !.j = 0], updatedNext), r.average, cache)

(* After the loop over the rows of one invocation of the row source. *)
afterFor(c, avg, cache, len, hdr) ==
    IF c.k = 0 \/ c.next = <<>>
    THEN afterWhile(c, avg, cache, len, hdr)
    ELSE FetchState(openParse(c, c.next), avg, cache)

(* One result of the row source in the loop over the rows. *)
parsedRow(c, avg, cache, len, hdr, result) ==
    LET counted == [c EXCEPT !.k = @ + 1]
        nextByteOfRow == result.byteOffset.n + result.byteCount.n
        stored == isStored(cache, result.byteOffset.n)
        s == IF stored THEN [result |-> "false", cache |-> cache] ELSE store(cache, len, result)
        next == getNextMissingRow(avg, s.cache, len, hdr, c.rowStart, c.rowEnd)
        fetched == [counted EXCEPT !.hasFetchedSomeRows = @ \/ (~stored /\ result.cells # <<>>),
                                   !.next = next, !.pos = nextByteOfRow,
                                   !.storedInRound = IF stored THEN @ ELSE c.i]
    IN  IF checkSignal(c.aborted)
        THEN FetchState(Finished(c, "rejected", FALSE), avg, cache)
        ELSE IF counted.k > maxLoops(c)
        THEN FetchState(Thrown(c, "Maximum parse loops exceeded"), avg, cache)
        ELSE IF c.isFirstRow /\ c.ignoreFirstRow
        THEN FetchState([counted EXCEPT !.isFirstRow = FALSE, !.pos = nextByteOfRow], avg, cache)
        ELSE IF result.byteCount.n = 0
        THEN afterFor([counted EXCEPT !.next = <<>>], avg, cache, len, hdr)
        ELSE IF Threw(s.result)
        THEN FetchState(Thrown(c, "store"), avg, cache)
        ELSE IF next = <<>>
        THEN afterFor(fetched, avg, s.cache, len, hdr)
        ELSE IF next[1].firstByte > nextByteOfRow + ChunkSize
        THEN afterFor(fetched, avg, s.cache, len, hdr)
        ELSE FetchState(fetched, avg, s.cache)

(* A fetch refreshes the estimator once before it looks at the cache. *)
refreshOnce(avg, cache, len) == refresh(avg, cache, len)

(* fetch up to its first suspension in the row source. *)
fetch(avg, cache, len, hdr, rowStart, rowEnd, aborted) ==
    LET c == [NoCall EXCEPT !.rowStart = rowStart, !.rowEnd = rowEnd, !.aborted = aborted, !.i = 1]
        r == refreshOnce(avg, cache, len)
        next == getNextMissingRow(r.average, cache, len, hdr, rowStart, rowEnd)
    IN  IF checkSignal(aborted)
        THEN FetchState(Finished(c, "rejected", FALSE), avg, cache)
        ELSE IF Threw(r.result)
        THEN FetchState(Thrown(c, "refresh"), avg, cache)
        ELSE IF allRowsCached(cache, len)
        THEN FetchState(IF rowEnd > computeNumCachedRows(cache)
                        THEN Thrown(c, "Requested rows are beyond the end of the file")
                        ELSE Finished(c, "done", FALSE), r.average, cache)
        ELSE IF next # <<>>
        THEN FetchState(openParse(c, next), r.average, cache)
        ELSE afterWhile(c, r.average, cache, len, hdr)

Resume(s) ==
    /\ call' = s.call
    /\ averageRowByteCount' = s.average
    /\ serial' = s.cache.serial
    /\ random' = s.cache.random
    /\ UNCHANGED <<byteLength, headerByteCount, file, computed, last, df, emptyLastLine, copyAverage, otherCall, viewer, indexed>>

FetchStart ==
    /\ call.pc # "parsing"
    /\ \E window \in Windows : \E aborted \in BOOLEAN :
           Resume(fetch(averageRowByteCount, cacheNow, byteLength, headerByteCount,
                        window.rowStart, window.rowEnd, aborted))

(* The number, among the data rows of the file, of the row at byteOffset. *)
DataRowNumber(f, hdr, byteOffset) ==
    Cardinality({i \in 1..Len(f) : f[i].kind # "empty" /\ hdr + FileBytes(f, i - 1) < byteOffset})

(* The row source yields a row. *)
ParseRow ==
    /\ call.pc = "parsing"
    /\ parseURL(file, headerByteCount, call.pos, emptyLastLine) # <<>>
    /\ \E s \in {parsedRow(call, averageRowByteCount, cacheNow, byteLength, headerByteCount,
                            parseURL(file, headerByteCount, call.pos, emptyLastLine)[1])} :
           LET row == DataRowNumber(file, headerByteCount, call.pos)
               new == /\ computeNumCachedRows(s.cache) > computeNumCachedRows(cacheNow)
                      /\ call.rowStart <= row
                      /\ row < call.rowEnd
           IN  Resume([s EXCEPT !.call.newRows = IF new THEN @ + 1 ELSE @])

(* The row source is exhausted. *)
ParseEnd ==
    /\ call.pc = "parsing"
    /\ parseURL(file, headerByteCount, call.pos, emptyLastLine) = <<>>
    /\ Resume(afterFor(call, averageRowByteCount, cacheNow, byteLength, headerByteCount))

(* The caller aborts the signal of the call in flight. *)
Abort ==
    /\ call.pc = "parsing"
    /\ ~call.aborted
    /\ call' = [call EXCEPT !.aborted = TRUE]
    /\ UNCHANGED <<byteLength, headerByteCount, file, serial, random, averageRowByteCount,
                   computed, last, df, emptyLastLine, copyAverage, otherCall, viewer, indexed>>

NextFetch == FetchStart \/ ParseRow \/ ParseEnd \/ Abort

SpecFetch == InitFetch /\ [][NextFetch]_vars

(***************************************************************************)
(* A copy of the estimator: copyAverage is the average of the copy, <<>>   *)
(* before the copy is made.  The copy reads the same cache.                *)
(***************************************************************************)
(* Mutation: the copy starts as a new estimator. *)
copyAsNew(avg) == ZeroAverage

(* Estimator.copy: the average of the copy. *)
copy(avg) == avg

Copy ==
    /\ copyAverage = <<>>
    /\ copyAverage' = <<copy(averageRowByteCount)>>
    /\ last' = [op |-> "copy", result |-> "true"]
    /\ UNCHANGED <<byteLength, headerByteCount, file, serial, random, averageRowByteCount,
                   computed, call, df, emptyLastLine, otherCall, viewer, indexed>>

RefreshCopy ==
    /\ copyAverage # <<>>
    /\ LET r == refresh(copyAverage[1], cacheNow, byteLength)
       IN  /\ copyAverage' = <<r.average>>
           /\ last' = [op |-> "refreshCopy", result |-> r.result]
    /\ UNCHANGED <<byteLength, headerByteCount, file, serial, random, averageRowByteCount,
                   computed, call, df, emptyLastLine, otherCall, viewer, indexed>>

InitCopy ==
    \E f \in FetchFiles :
        /\ file = f
        /\ Constructed(FileHeaderByteCount + FileBytes(f, Len(f)), FileHeaderByteCount)

NextCopy == StoreRow \/ Refresh \/ Copy \/ RefreshCopy

SpecCopy == InitCopy /\ [][NextCopy]_vars

(***************************************************************************)
(* Two fetch calls on the same data frame.  Each call runs without         *)
(* interruption between two awaits of the row source, so the calls         *)
(* interleave only there: call is the call that runs, otherCall the call   *)
(* that is suspended (or not started, or ended); the event loop may hand   *)
(* control to the other call whenever the running one awaits a row or has  *)
(* ended.  Each call is started once.                                      *)
(***************************************************************************)
StartCall ==
    /\ call.pc = "idle"
    /\ FetchStart

SwitchCall ==
    /\ call.pc # "idle"
    /\ call' = otherCall
    /\ otherCall' = call
    /\ UNCHANGED <<byteLength, headerByteCount, file, serial, random, averageRowByteCount,
                   computed, last, df, emptyLastLine, copyAverage, viewer, indexed>>

NextTwoCalls == StartCall \/ ParseRow \/ ParseEnd \/ SwitchCall

SpecTwoCalls == InitFetch /\ [][NextTwoCalls]_vars

(***************************************************************************)
(* The viewer (App.tsx).  viewer holds the reducer's state: url, and the   *)
(* optional byteLength, controller and df, each value tagged with the URL  *)
(* it was produced for (a controller is the number of its task); tasks are *)
(* the asynchronous chains started so far, one per setUrl or file drop:    *)
(* [url, pc] with pc "lookup" (byteLengthFromUrl pending), "creating"      *)
(* (csvDataFrame pending), "done" or "failed"; aborted is the set of       *)
(* controllers that were aborted.                                          *)
(***************************************************************************)
MaxUrls == 2

MaxTasks == 3

reducerSetUrl(state, url) ==
    [state EXCEPT !.url = url, !.byteLength = <<>>, !.controller = <<>>, !.df = <<>>,
                  !.aborted = @ \cup {state.controller[n] : n \in 1..Len(state.controller)}]

reducerSetByteLength(state, byteLengthOfUrl) == [state EXCEPT !.byteLength = <<byteLengthOfUrl>>]

reducerSetController(state, controller) == [state EXCEPT !.controller = <<controller>>]

reducerSetDataFrame(state, dfOfUrl) == [state EXCEPT !.df = <<dfOfUrl>>]

AllButViewer ==
    <<byteLength, headerByteCount, file, serial, random, averageRowByteCount, computed, last,
      call, df, emptyLastLine, copyAverage, otherCall, indexed>>

(* setUrl: the URL is set and the byte-length lookup starts. *)
SetUrl ==
    /\ Len(viewer.tasks) < MaxTasks
    /\ \E url \in 1..MaxUrls :
           viewer' = [reducerSetUrl(viewer, url) EXCEPT
                         !.tasks = Append(@, [url |-> url, pc |-> "lookup"])]
    /\ UNCHANGED AllButViewer

(* onFileDrop: the URL and the byte length are set and the data frame      *)
(* creation starts, all in the same turn.                                  *)
FileDrop ==
    /\ Len(viewer.tasks) < MaxTasks
    /\ \E url \in 1..MaxUrls :
           viewer' = [reducerSetController(reducerSetByteLength(reducerSetUrl(viewer, url), url),
                                          Len(viewer.tasks) + 1)
                         EXCEPT !.tasks = Append(@, [url |-> url, pc |-> "creating"])]
    /\ UNCHANGED AllButViewer

(* byteLengthFromUrl resolves: setByteLength, then prepareDataFrame creates *)
(* its controller, dispatches it and starts the data frame creation.        *)
ByteLengthResolved ==
    /\ \E t \in 1..Len(viewer.tasks) :
           /\ viewer.tasks[t].pc = "lookup"
           /\ viewer' = [reducerSetController(reducerSetByteLength(viewer, viewer.tasks[t].url), t)
                            EXCEPT !.tasks[t].pc = "creating"]
    /\ UNCHANGED AllButViewer

(* byteLengthFromUrl or csvDataFrame rejects: the error is shown. *)
TaskFailed ==
    /\ \E t \in 1..Len(viewer.tasks) :
           /\ viewer.tasks[t].pc \in {"lookup", "creating"}
           /\ viewer' = [viewer EXCEPT !.tasks[t].pc = "failed"]
    /\ UNCHANGED AllButViewer

(* csvDataFrame resolves: setDataFrame. *)
DataFrameCreated ==
    /\ \E t \in 1..Len(viewer.tasks) :
           /\ viewer.tasks[t].pc = "creating"
           /\ viewer' = [reducerSetDataFrame(viewer, viewer.tasks[t].url)
                            EXCEPT !.tasks[t].pc = "done"]
    /\ UNCHANGED AllButViewer

InitViewer ==
    /\ file = <<>>
    /\ Constructed(0, 0)

NextViewer == SetUrl \/ FileDrop \/ ByteLengthResolved \/ TaskFailed \/ DataFrameCreated

SpecViewer == InitViewer /\ [][NextViewer]_vars

(***************************************************************************)
(* The cache with row-indexed ranges under arbitrary calls of store and    *)
(* updateRowEstimates.                                                     *)
(***************************************************************************)
MaxFirstRow == 2

FirstRowInputs == {Whole(n) : n \in (0 - 1)..MaxFirstRow}

IndexedRowInputs ==
    [byteOffset : NumberInputs, byteCount : NumberInputs, firstRow : FirstRowInputs,
     cells : CellsInputs]

AllButIndexed ==
    <<byteLength, headerByteCount, file, serial, random, averageRowByteCount, computed, last,
      call, df, emptyLastLine, copyAverage, otherCall, viewer>>

IndexedStore ==
    /\ \E row \in IndexedRowInputs :
           /\ row.cells = <<>> \/ indexedRowCount(indexed.cache) < MaxStoredRows
           /\ \E s \in {indexedStore(indexed, byteLength, headerByteCount, row)} :
                  indexed' = s.ic
    /\ UNCHANGED AllButIndexed

UpdateRowEstimates ==
    /\ \E s \in {updateRowEstimates(indexed)} : indexed' = s.ic
    /\ UNCHANGED AllButIndexed

NextIndexed == IndexedStore \/ UpdateRowEstimates

SpecIndexed == Init /\ [][NextIndexed]_vars

InconsistencyFaults ==
    {"Inconsistent state: serial range exceeds the file length",
     "Inconsistent state: serial range covers the entire file, but there are random ranges",
     "Inconsistent state: row is before the left range",
     "Inconsistent state: this point should not be reachable",
     "Cannot append the row: it is not contiguous with the last row",
     "Cannot prepend the row: it is not contiguous with the first row",
     "Cannot merge ranges: not contiguous"}

NumRowsNow == numRows(averageRowByteCount, cacheNow, byteLength, headerByteCount)

MaxNumRowsNow == maxNumRows(averageRowByteCount, cacheNow, byteLength, headerByteCount)

(* The cells of the non-empty rows of a file, in byte order. *)
RECURSIVE DataRows(_, _, _)
DataRows(f, hdr, i) ==
    IF i > Len(f) THEN <<>>
    ELSE FileRow(f, hdr, i).cells \o DataRows(f, hdr, i + 1)

CellOf(cells, c) == IF c + 1 <= Len(cells) THEN cells[c + 1] ELSE EmptyString

(* a and b are fractions > 0: |a - b| is less than 1% of b. *)
WithinOnePercentOf(a, b) == 100 * Abs(a.num * b.den - b.num * a.den) < b.num * a.den

(***************************************************************************)
(* C1 - coverage invariant: after any sequence of store calls the ranges   *)
(* [serial, ...random] have strictly increasing firstByte, do not overlap, *)
(* and no range ends where the following one starts.                       *)
(***************************************************************************)
C1_CoverageInvariant ==
    \A k \in 1..(Len(Ranges) - 1) :
        /\ Ranges[k].firstByte < Ranges[k + 1].firstByte
        /\ nextByte(Ranges[k]) < Ranges[k + 1].firstByte

C1_Witness ==
    /\ last.op = "store"
    /\ last.result = "true"
    /\ Len(random) >= 2
    /\ \E k \in 1..Len(random) : random[k].byteCount = 0

(***************************************************************************)
(* C2 - idempotence: from any reachable state, when store(row) succeeds,   *)
(* storing the same row again at once returns false and changes nothing.   *)
(***************************************************************************)
C2_Idempotence ==
    \A row \in RowInputs :
        LET s1 == store(cacheNow, byteLength, row)
            s2 == store(s1.cache, byteLength, row)
        IN  ~Threw(s1.result) => (s2.result = "false" /\ s2.cache = s1.cache)

(***************************************************************************)
(* C3 - round trip on completion: once every row of the file is stored (in *)
(* any order) and the estimator is refreshed, getRowNumber(r) is r and     *)
(* getCell(r, c) is cell c of the r-th non-empty row of the file.          *)
(***************************************************************************)
C3_RoundTrip ==
    (complete(cacheNow, byteLength) = "true" /\ averageRowByteCount.undef) =>
        LET data == DataRows(file, headerByteCount, 1)
        IN  \A r \in 0..(Len(data) - 1) :
                /\ getRowNumber(averageRowByteCount, cacheNow, byteLength, headerByteCount, r) = <<r>>
                /\ \A c \in 0..(ColumnCount - 1) :
                       getCell(averageRowByteCount, cacheNow, byteLength, headerByteCount, Whole(r), Whole(c))
                           = [throws |-> FALSE, value |-> <<CellOf(data[r + 1], c)>>]

C3_Witness ==
    /\ complete(cacheNow, byteLength) = "true"
    /\ averageRowByteCount.undef
    /\ Len(DataRows(file, headerByteCount, 1)) >= 3
    /\ \E i \in 1..Len(file) : file[i].kind = "empty"
    /\ \E i \in 1..Len(file) : file[i].kind = "short"

(***************************************************************************)
(* C4 - the serial range starts at byte 0 and never passes byteLength;     *)
(* when it reaches byteLength there is no random range; no store or        *)
(* refresh ever raises an internal-consistency fault.                      *)
(***************************************************************************)
C4_SerialConsistent ==
    /\ serial.firstByte = 0
    /\ nextByte(serial) <= byteLength
    /\ (nextByte(serial) = byteLength => random = <<>>)
    /\ last.result \notin InconsistencyFaults

C4_Witness ==
    /\ last.op = "store"
    /\ last.result = "true"
    /\ headerByteCount < byteLength
    /\ nextByte(serial) = byteLength
    /\ numRowsOf(serial) >= 2

(***************************************************************************)
(* C5 - store throws on a negative or non-integer offset or count, on a    *)
(* span that passes byteLength, and on a span that partially overlaps the  *)
(* coverage; a store that throws leaves the cache as it was.               *)
(***************************************************************************)
PartialOverlap(row) ==
    LET off == row.byteOffset.n
        end == row.byteOffset.n + row.byteCount.n
        Inside(k) == Ranges[k].firstByte <= off /\ off < nextByte(Ranges[k])
    IN  \/ \E k \in 1..Len(Ranges) : Inside(k) /\ end > nextByte(Ranges[k])
        \/ /\ \A k \in 1..Len(Ranges) : ~Inside(k)
           /\ \E k \in 1..Len(Ranges) : Ranges[k].firstByte > off /\ end > Ranges[k].firstByte

MustThrow(row) ==
    \/ ~row.byteOffset.int \/ row.byteOffset.n < 0
    \/ ~row.byteCount.int \/ row.byteCount.n < 0
    \/ row.byteOffset.n + row.byteCount.n > byteLength
    \/ PartialOverlap(row)

C5_StoreThrows ==
    \A row \in RowInputs :
        LET s == store(cacheNow, byteLength, row)
        IN  /\ MustThrow(row) => Threw(s.result)
            /\ Threw(s.result) => s.cache = cacheNow

C5_Witness ==
    /\ last.op = "store"
    /\ last.result = "Cannot store the row: the first bytes are not cached, but other bytes are already cached."
    /\ Len(random) >= 1

(***************************************************************************)
(* C6 - store returns false only when the call changed nothing, and true   *)
(* only when the call changed the cache.                                   *)
(***************************************************************************)
C6_ResultTellsChange ==
    [][last'.op = "store" =>
          /\ (last'.result = "false" => (serial' = serial /\ random' = random))
          /\ (last'.result = "true" => (serial' # serial \/ random' # random))]_vars

(***************************************************************************)
(* C7 - a store call never changes the estimator's numRows,                *)
(* isNumRowsEstimated or maxNumRows, and refresh never changes the cache.  *)
(***************************************************************************)
C7_OnlyRefreshChangesEstimate ==
    [][/\ last'.op = "store" =>
             /\ NumRowsNow' = NumRowsNow
             /\ isNumRowsEstimated(averageRowByteCount') = isNumRowsEstimated(averageRowByteCount)
             /\ MaxNumRowsNow' = MaxNumRowsNow
       /\ last'.op = "refresh" => (serial' = serial /\ random' = random)]_vars

C9_CompletionReportedOnce ==
    /\ [](averageRowByteCount.undef => complete(cacheNow, byteLength) = "true")
    /\ [][(last'.op = "refresh" /\ complete(cacheNow, byteLength) = "true") =>
             /\ averageRowByteCount'.undef
             /\ last'.result = IF averageRowByteCount.undef THEN "false" ELSE "true"]_vars

C9_Witness ==
    /\ last.op = "refresh"
    /\ last.result = "false"
    /\ averageRowByteCount.undef
    /\ numRowsOf(serial) >= 1

(***************************************************************************)
(* C10 - refresh() returns true if and only if it changed the committed    *)
(* average or the exact/estimated mode; when it returns false numRows and  *)
(* isNumRowsEstimated are what they were.                                  *)
(***************************************************************************)
C10_RefreshResultTellsChange ==
    [][last'.op = "refresh" =>
          /\ (last'.result = "true" <=> averageRowByteCount' # averageRowByteCount)
          /\ (last'.result = "false" =>
                  /\ NumRowsNow' = NumRowsNow
                  /\ isNumRowsEstimated(averageRowByteCount') = isNumRowsEstimated(averageRowByteCount))]_vars

(***************************************************************************)
(* C11 - once the cache is complete and the estimator refreshed,           *)
(* getStatus(r) is Stored for every row r in [0, numRows) and BeyondEOF    *)
(* for every other non-negative row, also when the file has no data row.   *)
(***************************************************************************)
StatusNow(r, snapEOFToNumRows) ==
    getStatus(averageRowByteCount, cacheNow, byteLength, headerByteCount, Whole(r), snapEOFToNumRows)

C11_CompleteStatus ==
    (complete(cacheNow, byteLength) = "true" /\ averageRowByteCount.undef) =>
        \A r \in 0..(NumRowsNow + 2) : \A snap \in BOOLEAN :
            StatusNow(r, snap).status = IF r < NumRowsNow THEN "stored" ELSE "beyond-eof"

(***************************************************************************)
(* C12 - cell queries never guess: a value returned by getCell(r, c) is    *)
(* cell c of the r-th non-empty row of the file, a row that is not stored  *)
(* gives no value, and a column beyond the header's columns throws.        *)
(***************************************************************************)
CellNow(r, c) ==
    getCell(averageRowByteCount, cacheNow, byteLength, headerByteCount, Whole(r), Whole(c))

RowNumberNow(r) == getRowNumber(averageRowByteCount, cacheNow, byteLength, headerByteCount, r)

C13_RowNumber ==
    \A r \in (0 - 2)..(NumRowsNow + 2) :
        /\ (0 <= r /\ r < NumRowsNow) => RowNumberNow(r) = <<r>>
        /\ (r < 0 \/ r >= NumRowsNow) => RowNumberNow(r) = <<>>
        /\ NumRowsNow = 0 => RowNumberNow(r) = <<>>

C13_Witness ==
    /\ NumRowsNow >= 2
    /\ \E r \in 0..(NumRowsNow - 1) :
           /\ StatusNow(r, TRUE).status = "missing"
           /\ RowNumberNow(r) = <<r>>
    /\ RowNumberNow(NumRowsNow) = <<>>

(***************************************************************************)
(* C14 - for every row that passes the end-of-file test and every left     *)
(* side reached in getStatus's walk: a row below left's next free row      *)
(* index is Stored with the cells at local position row - firstRow; a row  *)
(* equal to that index is Missing at left's next byte, not an estimate.    *)
(***************************************************************************)
WalkNow(r, snapEOFToNumRows) ==
    getStatusWalk(averageRowByteCount, cacheNow, byteLength, headerByteCount, r, snapEOFToNumRows, 1,
                  [range |-> 0, firstRow |-> 0, isEstimate |-> FALSE])

C14_WalkFirstCases ==
    \A r \in 0..(NumRowsNow + 2) : \A snap \in BOOLEAN :
        StatusNow(r, snap).status # "beyond-eof" =>
            \A k \in 1..Len(WalkNow(r, snap)) :
                LET left == WalkNow(r, snap)[k]
                    range == RangeAt(cacheNow, left.range)
                    rows == range.rowsCache.rows
                    leftNextRow == left.firstRow + Len(rows)
                    st == StatusNow(r, snap)
                IN  /\ r < leftNextRow =>
                           /\ st.status = "stored"
                           /\ st.range = left.range
                           /\ r - left.firstRow \in 0..(Len(rows) - 1)
                           /\ st.cells = rows[r - left.firstRow + 1]
                    /\ r = leftNextRow =>
                           /\ st.status = "missing"
                           /\ st.byteOffset = range.firstByte + range.byteCount
                           /\ st.isEstimate = FALSE

C14_Witness ==
    \E r \in 0..(NumRowsNow + 2) :
        /\ Len(WalkNow(r, FALSE)) >= 2
        /\ StatusNow(r, FALSE).status = "missing"
        /\ StatusNow(r, FALSE).isEstimate = FALSE
        /\ \E q \in 0..(NumRowsNow + 2) :
               /\ Len(WalkNow(q, FALSE)) >= 2
               /\ StatusNow(q, FALSE).status = "stored"

(***************************************************************************)
(* C15 - getStatus is Unknown only when the committed average is still     *)
(* zero and the row is beyond the serial range's next free row index; with *)
(* a zero average the rows of the serial range are Stored and the row just *)
(* after it is Missing at an exact offset, whatever random ranges exist.   *)
(***************************************************************************)
C15_UnknownOnlyWithoutAverage ==
    \A r \in 0..(Len(serial.rowsCache.rows) + 2) : \A snap \in BOOLEAN :
        LET st == StatusNow(r, snap)
            rows == serial.rowsCache.rows
        IN  /\ st.status = "unknown" => (IsZero(averageRowByteCount) /\ r > Len(rows))
            /\ IsZero(averageRowByteCount) =>
                   /\ r < Len(rows) => (st.status = "stored" /\ st.cells = rows[r + 1])
                   /\ r = Len(rows) =>
                          /\ st.status = "missing"
                          /\ st.byteOffset = serial.firstByte + serial.byteCount
                          /\ st.isEstimate = FALSE

C15_Witness ==
    /\ IsZero(averageRowByteCount)
    /\ Len(serial.rowsCache.rows) >= 1
    /\ Len(random) >= 1
    /\ StatusNow(0, FALSE).status = "stored"
    /\ StatusNow(Len(serial.rowsCache.rows), FALSE).status = "missing"
    /\ StatusNow(Len(serial.rowsCache.rows) + 1, FALSE).status = "unknown"

(***************************************************************************)
(* C16 - numRows is 0 while the committed average is zero, the exact       *)
(* number of stored rows (all the file's data rows) once the cache is      *)
(* complete and refreshed, and otherwise the integer nearest to            *)
(* (byteLength - headerByteCount) / average, halves up; maxNumRows is      *)
(* Infinity exactly while isNumRowsEstimated, and numRows otherwise.       *)
(***************************************************************************)
C16_NumRows ==
    LET avg == averageRowByteCount
        bytes2 == 2 * (byteLength - headerByteCount) * avg.den
    IN  /\ IsZero(avg) => NumRowsNow = 0
        /\ avg.undef =>
               /\ NumRowsNow = computeNumCachedRows(cacheNow)
               /\ NumRowsNow = Len(DataRows(file, headerByteCount, 1))
        /\ (~IsZero(avg) /\ ~avg.undef) =>
               /\ (2 * NumRowsNow - 1) * avg.num <= bytes2
               /\ bytes2 < (2 * NumRowsNow + 1) * avg.num
        /\ MaxNumRowsNow = <<>> <=> isNumRowsEstimated(avg)
        /\ ~isNumRowsEstimated(avg) => MaxNumRowsNow = <<NumRowsNow>>

C16_Witness ==
    /\ ~IsZero(averageRowByteCount)
    /\ ~averageRowByteCount.undef
    /\ NumRowsNow * averageRowByteCount.num > (byteLength - headerByteCount) * averageRowByteCount.den
    /\ NumRowsNow # Len(DataRows(file, headerByteCount, 1))
    /\ MaxNumRowsNow = <<>>

(***************************************************************************)
(* C17 - once the signal of a fetch in progress is aborted nothing more is *)
(* stored, and the next row the row source yields makes the fetch reject;  *)
(* a fetch started with an aborted signal rejects without invoking the row *)
(* source.  At all times every range of the cache starts and ends at row   *)
(* boundaries of the file and holds exactly the data rows of the file in   *)
(* its span: no partial row is ever in the cache.                          *)
(***************************************************************************)
RowBoundaries == {0} \cup {headerByteCount + FileBytes(file, n) : n \in 0..Len(file)}

RECURSIVE DataRowsBetween(_, _, _, _, _)
DataRowsBetween(f, hdr, i, lo, hi) ==
    IF i > Len(f) THEN <<>>
    ELSE (IF lo <= hdr + FileBytes(f, i - 1) /\ hdr + FileBytes(f, i - 1) < hi
          THEN FileRow(f, hdr, i).cells ELSE <<>>)
             \o DataRowsBetween(f, hdr, i + 1, lo, hi)

CompleteRowsOnly ==
    \A n \in 1..Len(Ranges) :
        /\ Ranges[n].firstByte \in RowBoundaries
        /\ nextByte(Ranges[n]) \in RowBoundaries
        /\ Ranges[n].rowsCache.rows
               = DataRowsBetween(file, headerByteCount, 1, Ranges[n].firstByte, nextByte(Ranges[n]))

C17_AbortStoresNothing ==
    /\ []CompleteRowsOnly
    /\ [][/\ (call.pc = "parsing" /\ call.aborted) =>
                 /\ serial' = serial
                 /\ random' = random
                 /\ parseURL(file, headerByteCount, call.pos, emptyLastLine) # <<>> =>
                        call'.pc = "rejected"
          /\ (call.pc # "parsing" /\ call' # call /\ call'.aborted) =>
                 /\ call'.pc = "rejected"
                 /\ call'.invocations = 0
                 /\ serial' = serial
                 /\ random' = random]_vars

C17_Witness ==
    /\ call.pc = "rejected"
    /\ call.hasFetchedSomeRows
    /\ call.invocations >= 1
    /\ Len(random) >= 1

(***************************************************************************)
(* C18 - a fetch for a window whose rows all have the status Stored        *)
(* returns without invoking the row source, stores nothing and dispatches  *)
(* no resolve event.                                                       *)
(***************************************************************************)
FetchStarts == call.pc # "parsing" /\ call' # call /\ ~call'.aborted

WindowStored(c) ==
    \A r \in c.rowStart..(c.rowEnd - 1) :
        getStatus(refreshOnce(averageRowByteCount, cacheNow, byteLength).average, cacheNow, byteLength,
                  headerByteCount, Whole(r), FALSE).status = "stored"

C20_FrameFollowsCache ==
    /\ ~allRowsCached(cacheNow, byteLength) => df.isNumRowsEstimated
    /\ (allRowsCached(cacheNow, byteLength) /\ call.pc # "parsing") =>
           /\ df.numRows = Len(DataRows(file, headerByteCount, 1))
           /\ ~df.isNumRowsEstimated

(***************************************************************************)
(* C19 - a fetch for a window that starts beyond the stored rows and the   *)
(* row that follows them invokes no row source, stores nothing and         *)
(* dispatches no event while only the header is stored; once a row is      *)
(* stored the same fetch invokes the row source at an estimated offset.    *)
(* As the code has it: it does so when the status of the first row is      *)
(* Missing, at the byte offset of that status, discarding the first row    *)
(* exactly when the offset is an estimate; it fetches nothing when the row *)
(* is at or beyond the estimated number of rows.                           *)
(***************************************************************************)
StatusAtStart(r) ==
    getStatus(refreshOnce(averageRowByteCount, cacheNow, byteLength).average, cacheNow, byteLength,
              headerByteCount, Whole(r), FALSE)

BeyondCoverage(r) ==
    /\ r >= 1
    /\ ~allRowsCached(cacheNow, byteLength)
    /\ StatusAtStart(r).status # "stored"
    /\ StatusAtStart(r - 1).status # "stored"

FetchedNothing ==
    /\ call'.pc = "done"
    /\ call'.invocations = 0
    /\ call'.events = 0
    /\ serial' = serial
    /\ random' = random

FetchedAtEstimate ==
    /\ call'.pc = "parsing"
    /\ call'.invocations = 1
    /\ call'.ignoreFirstRow

C21_OneEventPerNewRow ==
    call.pc \in {"done", "rejected", "threw"} => call.events = call.newRows

(***************************************************************************)
(* C22 - a fetch called when the cache is complete returns normally for    *)
(* any window, also one that extends beyond the last row, without invoking *)
(* the row source, storing anything or dispatching an event.               *)
(***************************************************************************)
C22_CompleteFetchReturns ==
    [][(FetchStarts /\ allRowsCached(cacheNow, byteLength)) =>
           /\ call'.pc = "done"
           /\ call'.invocations = 0
           /\ call'.events = 0
           /\ serial' = serial
           /\ random' = random]_vars

(***************************************************************************)
(* C23 - the first row that the row source yields in a sub-range fetch     *)
(* started at an estimated byte offset is not stored; the first row of a   *)
(* sub-range fetch started at an exact offset is not discarded: it is in   *)
(* the cache after the step.                                               *)
(***************************************************************************)
FirstRowYielded ==
    /\ call.pc = "parsing"
    /\ call.k = 0
    /\ ~call.aborted
    /\ parseURL(file, headerByteCount, call.pos, emptyLastLine) # <<>>
    /\ call' # call
    /\ ~call'.aborted

C23_FirstRowOfEstimate ==
    [][FirstRowYielded =>
           IF call.next[1].isEstimate
           THEN serial' = serial /\ random' = random
           ELSE isStored([serial |-> serial', random |-> random'], call.pos)]_vars

C23_Witness ==
    /\ call.pc = "parsing"
    /\ call.k = 1
    /\ call.next[1].isEstimate
    /\ ~call.isFirstRow
    /\ ~isStored(cacheNow, call.next[1].firstByte)
    /\ call.next[1].firstByte \notin RowBoundaries

(***************************************************************************)
(* C24 - for a file with only a header, numRows is 0 and exact after the   *)
(* creation, and for every row r >= 0 getStatus is BeyondEOF, getCell and  *)
(* getRowNumber give no value, and none of them fails with an internal     *)
(* fault.                                                                  *)
(***************************************************************************)
C24_HeaderOnlyFile ==
    Len(file) = 0 =>
        /\ df.numRows = 0
        /\ ~df.isNumRowsEstimated
        /\ NumRowsNow = 0
        /\ ~isNumRowsEstimated(averageRowByteCount)
        /\ \A r \in 0..MaxFetchRow :
               /\ \A snap \in BOOLEAN : StatusNow(r, snap).status = "beyond-eof"
               /\ \A c \in 0..(ColumnCount - 1) : CellNow(r, c) = [throws |-> FALSE, value |-> <<>>]
               /\ RowNumberNow(r) = <<>>

(***************************************************************************)
(* C25 - for a row at or beyond the row count, getCell and getRowNumber of *)
(* the data frame throw when the count is exact (all rows cached), and     *)
(* return no value without throwing while the count is an estimate.        *)
(***************************************************************************)
FrameCellNow(r, c) ==
    dataFrameGetCell(averageRowByteCount, cacheNow, byteLength, headerByteCount, Whole(r), Whole(c))

FrameRowNumberNow(r) ==
    dataFrameGetRowNumber(averageRowByteCount, cacheNow, byteLength, headerByteCount, Whole(r))

Absent == [throws |-> FALSE, value |-> <<>>]

RECURSIVE SumCovered(_)
SumCovered(ranges) ==
    IF ranges = <<>> THEN 0 ELSE Head(ranges).byteCount + SumCovered(Tail(ranges))

CoveredBytes(cache) == SumCovered(<<cache.serial>> \o cache.random)

IgnoredRows == {row \in RowInputs : row.cells = <<>>}

C26_IgnoredRowNotCounted ==
    \A row \in IgnoredRows :
        LET s == store(cacheNow, byteLength, row)
        IN  s.result = "true" =>
                /\ CoveredBytes(s.cache) = CoveredBytes(cacheNow) + row.byteCount.n
                /\ computeNumCachedRows(s.cache) = computeNumCachedRows(cacheNow)
                /\ computeNumCachedBytes(s.cache) = computeNumCachedBytes(cacheNow)
                /\ complete(s.cache, byteLength) = complete(cacheNow, byteLength) =>
                       refresh(averageRowByteCount, s.cache, byteLength)
                           = refresh(averageRowByteCount, cacheNow, byteLength)

C26_Witness ==
    /\ CoveredBytes(cacheNow) > headerByteCount + computeNumCachedBytes(cacheNow)
    /\ computeNumCachedRows(cacheNow) >= 1
    /\ ~IsZero(averageRowByteCount)
    /\ ~averageRowByteCount.undef
    /\ averageRowByteCount = Fraction(computeNumCachedBytes(cacheNow), computeNumCachedRows(cacheNow))

(***************************************************************************)
(* C27 - the constructor throws for no column name, for a header longer    *)
(* than the file and for a byteLength or headerByteCount that is negative  *)
(* or not an integer; otherwise the new cache has the serial range         *)
(* [0, headerByteCount) without rows, no random range, and is complete     *)
(* exactly when headerByteCount = byteLength.                              *)
(***************************************************************************)
FreshCache(cache, hdr, len) ==
    /\ cache.serial.firstByte = 0
    /\ cache.serial.byteCount = hdr
    /\ numRowsOf(cache.serial) = 0
    /\ cache.serial.rowsCache.byteCount = 0
    /\ cache.random = <<>>
    /\ complete(cache, len) = (IF hdr = len THEN "true" ELSE "false")

C27_Constructor ==
    /\ \A columnCount \in 0..ColumnCount : \A hdr \in NumberInputs : \A len \in NumberInputs :
           LET new == newCSVCache(columnCount, hdr, len)
           IN  IF \/ columnCount = 0
                  \/ ~hdr.int \/ ~len.int \/ hdr.n < 0 \/ len.n < 0
                  \/ hdr.n > len.n
               THEN new.throws
               ELSE ~new.throws /\ FreshCache(new.cache, hdr.n, len.n)
    /\ last.op = "new" => FreshCache(cacheNow, headerByteCount, byteLength)

C27_Witness ==
    /\ last.op = "new"
    /\ headerByteCount = byteLength
    /\ headerByteCount > 0
    /\ complete(cacheNow, byteLength) = "true"

(***************************************************************************)
(* C28 - a copy of the estimator reports the numRows and                   *)
(* isNumRowsEstimated of the estimator it was copied from, and a refresh   *)
(* of one of the two leaves the numRows and isNumRowsEstimated of the      *)
(* other unchanged.                                                        *)
(***************************************************************************)
CopyNumRows == numRows(copyAverage[1], cacheNow, byteLength, headerByteCount)

C28_CopyIsIndependent ==
    [][/\ (copyAverage = <<>> /\ copyAverage' # <<>>) =>
              /\ CopyNumRows' = NumRowsNow
              /\ isNumRowsEstimated(copyAverage'[1]) = isNumRowsEstimated(averageRowByteCount)
       /\ (copyAverage # <<>> /\ last'.op = "refresh") =>
              /\ CopyNumRows' = CopyNumRows
              /\ isNumRowsEstimated(copyAverage'[1]) = isNumRowsEstimated(copyAverage[1])
       /\ (copyAverage # <<>> /\ last'.op = "refreshCopy") =>
              /\ NumRowsNow' = NumRowsNow
              /\ isNumRowsEstimated(averageRowByteCount') = isNumRowsEstimated(averageRowByteCount)]_vars

C28_Witness ==
    /\ copyAverage # <<>>
    /\ last.op = "refresh"
    /\ CopyNumRows >= 1
    /\ CopyNumRows # NumRowsNow
    /\ isNumRowsEstimated(copyAverage[1])
    /\ ~isNumRowsEstimated(averageRowByteCount)

(***************************************************************************)
(* C30: for any file and any window asked for, fetch never raises          *)
(* 'Maximum fetch loops exceeded', 'Maximum parse loops exceeded' or       *)
(* 'Maximum estimation loops exceeded': no call ends on an iteration guard. *)
(***************************************************************************)
LoopGuardErrors ==
    {"Maximum fetch loops exceeded", "Maximum parse loops exceeded",
     "Maximum estimation loops exceeded"}

C30_NoLoopGuardHit == call.error \notin LoopGuardErrors

(***************************************************************************)
(* C29: every fetch call terminates after at most maxLoops estimation      *)
(* rounds, maxLoops sub-range fetches per round and maxLoops parsed rows   *)
(* per sub-range fetch, and it stops as soon as a round makes no progress: *)
(* a call enters a further estimation round only after a round in which it *)
(* stored a row.                                                           *)
(***************************************************************************)
NextRoundStarts ==
    /\ call.pc = "parsing"
    /\ call'.pc = "parsing"
    /\ call'.i = call.i + 1

C29_StopsWithoutProgress == [][NextRoundStarts => call'.storedInRound = call.i]_vars

(***************************************************************************)
(* C31: whenever getFirstMissingRow({minRow}) returns {row, byteOffset},   *)
(* row is at least minRow and getStatus(row) in the same state is Missing  *)
(* with the same byte offset; the row returned is never one that getStatus *)
(* reports as Stored or BeyondEOF.                                         *)
(***************************************************************************)
FirstMissingRowNow(minRow) ==
    getFirstMissingRow(averageRowByteCount, cacheNow, byteLength, headerByteCount, minRow)

C31_FirstMissingRowIsMissing ==
    \A minRow \in 0..(NumRowsNow + 2) :
        FirstMissingRowNow(minRow) # <<>> =>
            LET found == FirstMissingRowNow(minRow)[1]
                st == StatusNow(found.row, FALSE)
            IN  /\ found.row >= minRow
                /\ st.status = "missing"
                /\ st.byteOffset = found.byteOffset

(***************************************************************************)
(* C32: coverage only grows.  After any store call every byte covered      *)
(* before is still covered and the rows stored before are still stored in  *)
(* the same relative order; a complete cache stays complete, an exact      *)
(* estimator stays exact, and refresh() never raises 'the cache state      *)
(* cannot go from complete to incomplete'.                                 *)
(***************************************************************************)
CoveredSet(cache) ==
    {b \in 0..(byteLength + 1) :
        \E k \in 0..Len(cache.random) :
            RangeAt(cache, k).firstByte <= b /\ b < nextByte(RangeAt(cache, k))}

RECURSIVE RowsFrom(_, _)
RowsFrom(cache, k) ==
    IF k > Len(cache.random) THEN <<>>
    ELSE RangeAt(cache, k).rowsCache.rows \o RowsFrom(cache, k + 1)

AllRows(cache) == RowsFrom(cache, 0)

RECURSIVE IsSubsequence(_, _)
IsSubsequence(a, b) ==
    IF a = <<>> THEN TRUE
    ELSE IF b = <<>> THEN FALSE
    ELSE IF Head(a) = Head(b) THEN IsSubsequence(Tail(a), Tail(b))
    ELSE IsSubsequence(a, Tail(b))

C32_CoverageOnlyGrows ==
    [][/\ CoveredSet(cacheNow) \subseteq CoveredSet(cacheNow')
       /\ IsSubsequence(AllRows(cacheNow), AllRows(cacheNow'))
       /\ complete(cacheNow, byteLength) = "true" => complete(cacheNow', byteLength) = "true"
       /\ averageRowByteCount.undef => averageRowByteCount'.undef
       /\ last'.result #
              "Incoherent state: the cache state cannot go from complete to incomplete"]_vars

C32_Witness ==
    /\ last.op = "store"
    /\ complete(cacheNow, byteLength) = "true"
    /\ averageRowByteCount.undef
    /\ numRowsOf(serial) >= 2

(***************************************************************************)
(* C33: for every row r smaller than the number of rows stored in the      *)
(* serial range, getStatus(r) is Stored and getCell(r, c) returns cell c   *)
(* of that row, whatever the committed average is and whenever refresh()   *)
(* was last called.                                                        *)
(***************************************************************************)
C33_SerialRowsAreStored ==
    \A r \in 0..(numRowsOf(serial) - 1) :
        /\ \A snap \in BOOLEAN : StatusNow(r, snap).status = "stored"
        /\ \A c \in 0..(ColumnCount - 1) :
               CellNow(r, c) = [throws |-> FALSE, value |-> <<CellOf(serial.rowsCache.rows[r + 1], c)>>]

(***************************************************************************)
(* C34: whenever getStatus returns Missing, its byte offset is at least    *)
(* the left range's nextByte, strictly less than the right range's         *)
(* firstByte when there is a right range, and strictly less than           *)
(* byteLength: it designates a byte of the file that is not yet covered.   *)
(***************************************************************************)
MissingOffsetInGap(st) ==
    /\ st.byteOffset >= nextByte(RangeAt(cacheNow, st.range))
    /\ st.rightRange # <<>> => st.byteOffset < random[st.rightRange[1]].firstByte
    /\ st.byteOffset < byteLength

C34_MissingOffsetUncovered ==
    \A r \in 0..(NumRowsNow + 2) : \A snap \in BOOLEAN :
        StatusNow(r, snap).status = "missing" => MissingOffsetInGap(StatusNow(r, snap))

(***************************************************************************)
(* C35: directly after every refresh() on an incomplete cache that holds   *)
(* at least one stored row, the committed average differs from the average *)
(* the call computed (stored row bytes / stored rows) by at most 1% of the *)
(* committed average, however many refreshes were damped before.           *)
(***************************************************************************)
AtMostOnePercentOf(a, b) ==
    100 * Abs(a.num * b.den - b.num * a.den) <= PercentThreshold * b.num * a.den

C36_StatusNeverFaults ==
    \A r \in 0..(NumRowsNow + 2) : \A snap \in BOOLEAN :
        StatusNow(r, snap).status \in {"stored", "missing", "beyond-eof", "unknown"}

(***************************************************************************)
(* C37: when two fetch calls on the same data frame are interleaved at     *)
(* their await points, no store call raises an overlap fault, no row is    *)
(* stored twice, and after both calls have ended the ranges are sorted,    *)
(* non-overlapping and non-contiguous.                                     *)
(***************************************************************************)
Ended(c) == c.pc \in {"done", "rejected", "threw"}

NoRowTwice(rows) == \A m, n \in 1..Len(rows) : rows[m] = rows[n] => m = n

RangesApart ==
    \A k \in 1..(Len(Ranges) - 1) : nextByte(Ranges[k]) < Ranges[k + 1].firstByte

C38_ValuesBelongToCurrentUrl ==
    /\ \A n \in 1..Len(viewer.byteLength) : viewer.byteLength[n] = viewer.url
    /\ \A n \in 1..Len(viewer.controller) :
          viewer.tasks[viewer.controller[n]].url = viewer.url
    /\ \A n \in 1..Len(viewer.df) : viewer.df[n] = viewer.url


RECURSIVE SumByteCount(_)
SumByteCount(ranges) ==
    IF ranges = <<>> THEN 0 ELSE Head(ranges).byteCount + SumByteCount(Tail(ranges))

TotalByteCount(cache) == cache.serial.byteCount + SumByteCount(cache.random)

RowBytesWithinRange(cache) ==
    /\ cache.serial.rowsCache.byteCount <= cache.serial.byteCount
    /\ \A n \in 1..Len(cache.random) :
          cache.random[n].rowsCache.byteCount <= cache.random[n].byteCount

(* The store calls that explain the step: their result and the cache they  *)
(* leave are the ones of the next state.                                    *)
StoreCallsOfStep ==
    {row \in RowInputs :
        /\ row.cells = <<>> \/ computeNumCachedRows(cacheNow) < MaxStoredRows
        /\ store(cacheNow, byteLength, row) =
             [result |-> last'.result, cache |-> [serial |-> serial', random |-> random']]}

(***************************************************************************)
(* C39: the byteCount of all ranges sums to headerByteCount plus the       *)
(* byteCount of every store call that returned true, and the number of     *)
(* stored rows is the number of such calls that had cells: at construction *)
(* the sums are headerByteCount and 0, a store that returns true adds its  *)
(* byteCount and, with cells, one row, merges included, and no other step  *)
(* changes them; in every range the stored rows' bytes do not exceed the   *)
(* range's byteCount.                                                      *)
(***************************************************************************)
C39_TotalsFollowStores ==
    /\ TotalByteCount(cacheNow) = headerByteCount /\ computeNumCachedRows(cacheNow) = 0
    /\ []RowBytesWithinRange(cacheNow)
    /\ [][IF last'.op = "store" /\ last'.result = "true"
          THEN \A row \in StoreCallsOfStep :
                  /\ TotalByteCount(cacheNow)' = TotalByteCount(cacheNow) + row.byteCount.n
                  /\ computeNumCachedRows(cacheNow)' =
                       computeNumCachedRows(cacheNow) + (IF row.cells # <<>> THEN 1 ELSE 0)
                  /\ computeNumCachedBytes(cacheNow)' =
                       computeNumCachedBytes(cacheNow) + (IF row.cells # <<>> THEN row.byteCount.n ELSE 0)
          ELSE /\ TotalByteCount(cacheNow)' = TotalByteCount(cacheNow)
               /\ computeNumCachedRows(cacheNow)' = computeNumCachedRows(cacheNow)
               /\ computeNumCachedBytes(cacheNow)' = computeNumCachedBytes(cacheNow)]_vars

(* A store has just returned true and the only range holds the header, the *)
(* bytes of an ignored row and two rows.                                   *)
C39_Witness ==
    /\ last = [op |-> "store", result |-> "true"]
    /\ random = <<>>
    /\ numRowsOf(serial) = 2
    /\ serial.rowsCache.byteCount < serial.byteCount - headerByteCount


IndexedRanges == {indexed.cache.serial} \cup {indexed.cache.random[n] : n \in 1..Len(indexed.cache.random)}

(* The rows that can be prepended to a range: they end where it starts. *)
PrependableRows(range) ==
    {row \in IndexedRowInputs :
        /\ checkNonNegativeInteger(row.byteOffset) /\ checkNonNegativeInteger(row.byteCount)
        /\ row.byteOffset.n + row.byteCount.n = range.firstByte}

PrependMovesFirstRow ==
    \A range \in IndexedRanges : \A row \in PrependableRows(range) :
        /\ IndexedRangePrepend(range, row).ok
        /\ IndexedRangePrepend(range, row).range.firstRow =
             (IF row.cells # <<>> THEN range.firstRow - 1 ELSE range.firstRow)

(***************************************************************************)
(* C40: in the cache whose ranges carry a firstRow index, prepending a row *)
(* with cells to a range decreases its firstRow by exactly one, prepending *)
(* an ignored row leaves it unchanged, and in every reachable state the    *)
(* firstRow of every range is a non-negative integer.                      *)
(***************************************************************************)
C40_FirstRowStaysNonNegative ==
    /\ PrependMovesFirstRow
    /\ \A range \in IndexedRanges : range.firstRow >= 0

====
